---- MODULE Spec2Model ----
(***************************************************************************)
(* Model of the RSV codec of src/core.rs: encode_rsv and decode_rsv.       *)
(*                                                                         *)
(* A document is a sequence of rows, a row a sequence of cells, a cell     *)
(* Option<String>: None or Some(text).  A text is a sequence of Unicode    *)
(* scalar values; a byte buffer is a sequence of integers 0..255.  Rust    *)
(* indexes from 0 and TLA+ sequences from 1: At and Slice translate, so    *)
(* that i and value_start_index carry the values they have in the code.    *)
(***************************************************************************)
EXTENDS Integers, Sequences, FiniteSets

VARIABLES
    pc,                 \* where the caller is: "encode", "encoded", "decode", "scan", "decoded"
    entry,              \* which function the caller called first: "encode" or "decode"
    rows,               \* encode_rsv's argument
    encoded,            \* encode_rsv's return value
    bytes,              \* decode_rsv's argument
    result,             \* decode_rsv's local: the completed rows
    current_row,        \* decode_rsv's local: the row being accumulated
    value_start_index,  \* decode_rsv's local
    i,                  \* decode_rsv's loop index
    ret                 \* decode_rsv's return value

vars == <<pc, entry, rows, encoded, bytes, result, current_row, value_start_index, i, ret>>

----------------------------------------------------------------------------
(* Constants of the wire format. *)

VALUE_TERMINATOR == 255
ROW_TERMINATOR == 253
NULL_VALUE == 254

----------------------------------------------------------------------------
(* Bounds of the model. *)

\* A raw buffer handed to decode_rsv has at most MaxLen bytes.
MaxLen == 5
\* A document handed to encode_rsv weighs at most MaxSize: one per row, one
\* per cell, one per character.
MaxSize == 6

\* The bytes raw buffers are made of: 'A', a continuation byte (0xA9), an
\* overlong two-byte lead (0xC1), a two-byte lead (0xC3), a three-byte lead
\* (0xE2), and the three reserved bytes.
BufferBytes == {65, 169, 193, 195, 226, ROW_TERMINATOR, NULL_VALUE, VALUE_TERMINATOR}
\* The characters texts are made of: 'A' (1 byte), U+00E9 (2 bytes),
\* U+20AC (3 bytes), U+1F601 (4 bytes).
Chars == {65, 233, 8364, 128513}

----------------------------------------------------------------------------
(* Option<String> and zero-based indexing. *)

None == <<"None">>
Some(s) == <<"Some", s>>
IsNone(v) == v[1] = "None"

At(b, k) == b[k + 1]
Slice(b, from, to) == SubSeq(b, from + 1, to)

----------------------------------------------------------------------------
(* UTF-8, as the standard library computes it. *)

\* char::encode_utf8, behind String::into_bytes
EncodeUtf8Char(c) ==
    IF c < 128 THEN <<c>>
    ELSE IF c < 2048 THEN <<192 + (c \div 64), 128 + (c % 64)>>
    ELSE IF c < 65536 THEN
        <<224 + (c \div 4096), 128 + ((c \div 64) % 64), 128 + (c % 64)>>
    ELSE <<240 + (c \div 262144), 128 + ((c \div 4096) % 64),
           128 + ((c \div 64) % 64), 128 + (c % 64)>>

RECURSIVE into_bytes(_)
into_bytes(s) ==
    IF s = <<>> THEN <<>> ELSE EncodeUtf8Char(Head(s)) \o into_bytes(Tail(s))

IsContinuation(b) == b >= 128 /\ b <= 191

\* Mutant: a lone continuation byte taken as a one-byte character.
Utf8CharWidth_Lenient(b) ==
    IF b < 192 THEN 1
    ELSE IF b >= 194 /\ b <= 223 THEN 2
    ELSE IF b >= 224 /\ b <= 239 THEN 3
    ELSE IF b >= 240 /\ b <= 244 THEN 4
    ELSE 0

Utf8CharWidth(b) ==
    IF b < 128 THEN 1
    ELSE IF b >= 194 /\ b <= 223 THEN 2
    ELSE IF b >= 224 /\ b <= 239 THEN 3
    ELSE IF b >= 240 /\ b <= 244 THEN 4
    ELSE 0

\* The second byte of a 3- or 4-byte sequence is restricted by the first
\* (no overlong forms, no surrogates, nothing above U+10FFFF).
SecondByteOk(first, second) ==
    IF first = 224 THEN second >= 160 /\ second <= 191
    ELSE IF first = 237 THEN second >= 128 /\ second <= 159
    ELSE IF first = 240 THEN second >= 144 /\ second <= 191
    ELSE IF first = 244 THEN second >= 128 /\ second <= 143
    ELSE IsContinuation(second)

Utf8Err == [ok |-> FALSE, str |-> <<>>]

\* String::from_utf8 on the bytes v, with acc the characters decoded so far.
RECURSIVE Utf8Decode(_, _)
Utf8Decode(v, acc) ==
    IF v = <<>> THEN [ok |-> TRUE, str |-> acc]
    ELSE LET first == v[1]
             w == Utf8CharWidth(first)
         IN IF w = 0 \/ Len(v) < w THEN Utf8Err
            ELSE IF w = 1 THEN Utf8Decode(Tail(v), Append(acc, first))
            ELSE IF ~SecondByteOk(first, v[2]) THEN Utf8Err
            ELSE IF w = 2 THEN
                Utf8Decode(SubSeq(v, 3, Len(v)),
                           Append(acc, (first - 192) * 64 + (v[2] - 128)))
            ELSE IF ~IsContinuation(v[3]) THEN Utf8Err
            ELSE IF w = 3 THEN
                Utf8Decode(SubSeq(v, 4, Len(v)),
                           Append(acc, (first - 224) * 4096 + (v[2] - 128) * 64
                                       + (v[3] - 128)))
            ELSE IF ~IsContinuation(v[4]) THEN Utf8Err
            ELSE Utf8Decode(SubSeq(v, 5, Len(v)),
                            Append(acc, (first - 240) * 262144 + (v[2] - 128) * 4096
                                        + (v[3] - 128) * 64 + (v[4] - 128)))

from_utf8(v) == Utf8Decode(v, <<>>)

----------------------------------------------------------------------------
(* encode_rsv *)

\* the closure of the map: one cell to its bytes
ValueInBytes(v) == IF IsNone(v) THEN <<NULL_VALUE>> ELSE into_bytes(v[2])

\* Mutant: the value terminator between the values only, none after the last.
RECURSIVE FoldValues_Join(_, _)
FoldValues_Join(row_result, values) ==
    IF values = <<>> THEN row_result
    ELSE IF Tail(values) = <<>> THEN row_result \o Head(values)
    ELSE FoldValues_Join(Append(row_result \o Head(values), VALUE_TERMINATOR), Tail(values))

\* the inner fold: each value's bytes, then the value terminator
RECURSIVE FoldValues(_, _)
FoldValues(row_result, values) ==
    IF values = <<>> THEN row_result
    ELSE FoldValues(Append(row_result \o Head(values), VALUE_TERMINATOR), Tail(values))

row_bytes(row) == FoldValues(<<>>, [k \in 1..Len(row) |-> ValueInBytes(row[k])])

\* the outer fold: each row's bytes, then the row terminator
RECURSIVE FoldRows(_, _)
FoldRows(acc, rs) ==
    IF rs = <<>> THEN acc
    ELSE FoldRows(Append(acc \o row_bytes(Head(rs)), ROW_TERMINATOR), Tail(rs))

encode_rsv(rs) == FoldRows(<<>>, rs)

----------------------------------------------------------------------------
(* decode_rsv's return values *)

Pending == [kind |-> "Pending", rows |-> <<>>, pos |-> 0]
Ok(rs) == [kind |-> "Ok", rows |-> rs, pos |-> 0]
IncompleteRSVDocument == [kind |-> "IncompleteRSVDocument", rows |-> <<>>, pos |-> 0]
IncompleteRSVRow(n) == [kind |-> "IncompleteRSVRow", rows |-> <<>>, pos |-> n]
InvalidStringValue == [kind |-> "InvalidStringValue", rows |-> <<>>, pos |-> 0]
Panic == [kind |-> "Panic", rows |-> <<>>, pos |-> 0]

----------------------------------------------------------------------------
(* The inputs. *)

RECURSIVE TextsOfLen(_)
TextsOfLen(n) ==
    IF n = 0 THEN {<<>>}
    ELSE {Append(t, c) : t \in TextsOfLen(n - 1), c \in Chars}

\* the cells of weight exactly w
CellsOfWeight(w) ==
    IF w < 1 THEN {}
    ELSE {Some(t) : t \in TextsOfLen(w - 1)} \cup (IF w = 1 THEN {None} ELSE {})

\* the sequences of cells of total weight at most n
RECURSIVE CellSeqs(_)
CellSeqs(n) ==
    {<<>>} \cup UNION {{<<c>> \o r : c \in CellsOfWeight(w), r \in CellSeqs(n - w)} : w \in 1..n}

RowWeight(row) ==
    LET RECURSIVE W(_)
        W(r) == IF r = <<>> THEN 0
                ELSE (IF IsNone(Head(r)) THEN 1 ELSE 1 + Len(Head(r)[2])) + W(Tail(r))
    IN 1 + W(row)

\* the documents of total weight at most n
RECURSIVE DocumentsUpTo(_)
DocumentsUpTo(n) ==
    IF n < 1 THEN {<<>>}
    ELSE {<<>>} \cup
         UNION {{<<r>> \o d : d \in DocumentsUpTo(n - RowWeight(r))} : r \in CellSeqs(n - 1)}

Documents == DocumentsUpTo(MaxSize)

Buffers == UNION {[1..n -> BufferBytes] : n \in 0..MaxLen}

----------------------------------------------------------------------------

Init ==
    /\ \/ entry = "encode" /\ pc = "encode" /\ rows \in Documents /\ bytes = <<>>
       \/ entry = "decode" /\ pc = "decode" /\ rows = <<>> /\ bytes \in Buffers
    /\ encoded = <<>>
    /\ result = <<>>
    /\ current_row = <<>>
    /\ value_start_index = 0
    /\ i = 0
    /\ ret = Pending

\* encode_rsv(rows)
EncodeRsv ==
    /\ pc = "encode"
    /\ encoded' = encode_rsv(rows)
    /\ pc' = "encoded"
    /\ UNCHANGED <<entry, rows, bytes, result, current_row, value_start_index, i, ret>>

\* Mutant: the buffer is only checked for being empty, not for its last byte.
DecodeCheck_EmptyOnly ==
    /\ pc = "decode"
    /\ IF bytes = <<>>
       THEN /\ ret' = IncompleteRSVDocument
            /\ pc' = "decoded"
            /\ UNCHANGED <<result, current_row, value_start_index, i>>
       ELSE /\ result' = <<>>
            /\ current_row' = <<>>
            /\ value_start_index' = 0
            /\ i' = 0
            /\ pc' = "scan"
            /\ UNCHANGED ret
    /\ UNCHANGED <<entry, rows, encoded, bytes>>

\* decode_rsv's entry: the last-byte check and the locals
DecodeCheck ==
    /\ pc = "decode"
    /\ IF bytes = <<>> \/ bytes[Len(bytes)] # ROW_TERMINATOR
       THEN /\ ret' = IncompleteRSVDocument
            /\ pc' = "decoded"
            /\ UNCHANGED <<result, current_row, value_start_index, i>>
       ELSE /\ result' = <<>>
            /\ current_row' = <<>>
            /\ value_start_index' = 0
            /\ i' = 0
            /\ pc' = "scan"
            /\ UNCHANGED ret
    /\ UNCHANGED <<entry, rows, encoded, bytes>>

\* Mutant: the null marker is recognised by the first byte alone, whatever the length.
ScanValueTerminator_NullAnyLength ==
    /\ pc = "scan"
    /\ i < Len(bytes)
    /\ At(bytes, i) = VALUE_TERMINATOR
    /\ IF value_start_index > i
       THEN /\ ret' = Panic
            /\ pc' = "decoded"
            /\ UNCHANGED <<current_row, value_start_index, i>>
       ELSE LET length == i - value_start_index
                value_bytes == Slice(bytes, value_start_index, i)
                decoded == from_utf8(value_bytes)
            IN IF length = 0
               THEN /\ current_row' = Append(current_row, Some(<<>>))
                    /\ value_start_index' = i + 1
                    /\ i' = i + 1
                    /\ UNCHANGED <<pc, ret>>
               ELSE IF At(bytes, value_start_index) = NULL_VALUE
               THEN /\ current_row' = Append(current_row, None)
                    /\ value_start_index' = i + 1
                    /\ i' = i + 1
                    /\ UNCHANGED <<pc, ret>>
               ELSE IF decoded.ok
               THEN /\ current_row' = Append(current_row, Some(decoded.str))
                    /\ value_start_index' = i + 1
                    /\ i' = i + 1
                    /\ UNCHANGED <<pc, ret>>
               ELSE /\ ret' = InvalidStringValue
                    /\ pc' = "decoded"
                    /\ UNCHANGED <<current_row, value_start_index, i>>
    /\ UNCHANGED <<entry, rows, encoded, bytes, result>>

\* Mutant: an empty run is taken for a null cell.
ScanValueTerminator_EmptyIsNull ==
    /\ pc = "scan"
    /\ i < Len(bytes)
    /\ At(bytes, i) = VALUE_TERMINATOR
    /\ IF value_start_index > i
       THEN /\ ret' = Panic
            /\ pc' = "decoded"
            /\ UNCHANGED <<current_row, value_start_index, i>>
       ELSE LET length == i - value_start_index
                value_bytes == Slice(bytes, value_start_index, i)
                decoded == from_utf8(value_bytes)
            IN IF length = 0
               THEN /\ current_row' = Append(current_row, None)
                    /\ value_start_index' = i + 1
                    /\ i' = i + 1
                    /\ UNCHANGED <<pc, ret>>
               ELSE IF length = 1 /\ At(bytes, value_start_index) = NULL_VALUE
               THEN /\ current_row' = Append(current_row, None)
                    /\ value_start_index' = i + 1
                    /\ i' = i + 1
                    /\ UNCHANGED <<pc, ret>>
               ELSE IF decoded.ok
               THEN /\ current_row' = Append(current_row, Some(decoded.str))
                    /\ value_start_index' = i + 1
                    /\ i' = i + 1
                    /\ UNCHANGED <<pc, ret>>
               ELSE /\ ret' = InvalidStringValue
                    /\ pc' = "decoded"
                    /\ UNCHANGED <<current_row, value_start_index, i>>
    /\ UNCHANGED <<entry, rows, encoded, bytes, result>>

\* one iteration of the loop, bytes[i] the value terminator
ScanValueTerminator ==
    /\ pc = "scan"
    /\ i < Len(bytes)
    /\ At(bytes, i) = VALUE_TERMINATOR
    /\ IF value_start_index > i
       THEN \* i - value_start_index underflows, or the slice is out of order
            /\ ret' = Panic
            /\ pc' = "decoded"
            /\ UNCHANGED <<current_row, value_start_index, i>>
       ELSE LET length == i - value_start_index
                value_bytes == Slice(bytes, value_start_index, i)
                decoded == from_utf8(value_bytes)
            IN IF length = 0
               THEN /\ current_row' = Append(current_row, Some(<<>>))
                    /\ value_start_index' = i + 1
                    /\ i' = i + 1
                    /\ UNCHANGED <<pc, ret>>
               ELSE IF length = 1 /\ At(bytes, value_start_index) = NULL_VALUE
               THEN /\ current_row' = Append(current_row, None)
                    /\ value_start_index' = i + 1
                    /\ i' = i + 1
                    /\ UNCHANGED <<pc, ret>>
               ELSE IF decoded.ok
               THEN /\ current_row' = Append(current_row, Some(decoded.str))
                    /\ value_start_index' = i + 1
                    /\ i' = i + 1
                    /\ UNCHANGED <<pc, ret>>
               ELSE /\ ret' = InvalidStringValue
                    /\ pc' = "decoded"
                    /\ UNCHANGED <<current_row, value_start_index, i>>
    /\ UNCHANGED <<entry, rows, encoded, bytes, result>>

\* Mutant: the position reported is the zero-based index of the terminator.
ScanRowTerminator_ZeroBasedPos ==
    /\ pc = "scan"
    /\ i < Len(bytes)
    /\ At(bytes, i) = ROW_TERMINATOR
    /\ IF i > 0 /\ value_start_index # i
       THEN /\ ret' = IncompleteRSVRow(i)
            /\ pc' = "decoded"
            /\ UNCHANGED <<result, current_row, value_start_index, i>>
       ELSE /\ result' = Append(result, current_row)
            /\ current_row' = <<>>
            /\ value_start_index' = i + 1
            /\ i' = i + 1
            /\ UNCHANGED <<pc, ret>>
    /\ UNCHANGED <<entry, rows, encoded, bytes>>

\* Mutant: a row with no cells is dropped instead of pushed.
ScanRowTerminator_DropEmptyRow ==
    /\ pc = "scan"
    /\ i < Len(bytes)
    /\ At(bytes, i) = ROW_TERMINATOR
    /\ IF i > 0 /\ value_start_index # i
       THEN /\ ret' = IncompleteRSVRow(i + 1)
            /\ pc' = "decoded"
            /\ UNCHANGED <<result, current_row, value_start_index, i>>
       ELSE /\ result' = IF current_row = <<>> THEN result ELSE Append(result, current_row)
            /\ current_row' = <<>>
            /\ value_start_index' = i + 1
            /\ i' = i + 1
            /\ UNCHANGED <<pc, ret>>
    /\ UNCHANGED <<entry, rows, encoded, bytes>>

\* Mutant: the next value is taken to start two bytes after the terminator.
ScanRowTerminator_StartTooFar ==
    /\ pc = "scan"
    /\ i < Len(bytes)
    /\ At(bytes, i) = ROW_TERMINATOR
    /\ IF i > 0 /\ value_start_index # i
       THEN /\ ret' = IncompleteRSVRow(i + 1)
            /\ pc' = "decoded"
            /\ UNCHANGED <<result, current_row, value_start_index, i>>
       ELSE /\ result' = Append(result, current_row)
            /\ current_row' = <<>>
            /\ value_start_index' = i + 2
            /\ i' = i + 1
            /\ UNCHANGED <<pc, ret>>
    /\ UNCHANGED <<entry, rows, encoded, bytes>>

\* one iteration of the loop, bytes[i] the row terminator
ScanRowTerminator ==
    /\ pc = "scan"
    /\ i < Len(bytes)
    /\ At(bytes, i) = ROW_TERMINATOR
    /\ IF i > 0 /\ value_start_index # i
       THEN /\ ret' = IncompleteRSVRow(i + 1)
            /\ pc' = "decoded"
            /\ UNCHANGED <<result, current_row, value_start_index, i>>
       ELSE /\ result' = Append(result, current_row)
            /\ current_row' = <<>>
            /\ value_start_index' = i + 1
            /\ i' = i + 1
            /\ UNCHANGED <<pc, ret>>
    /\ UNCHANGED <<entry, rows, encoded, bytes>>

\* one iteration of the loop, bytes[i] any other byte
ScanOther ==
    /\ pc = "scan"
    /\ i < Len(bytes)
    /\ At(bytes, i) \notin {VALUE_TERMINATOR, ROW_TERMINATOR}
    /\ i' = i + 1
    /\ UNCHANGED <<pc, entry, rows, encoded, bytes, result, current_row,
                   value_start_index, ret>>

\* the loop is over: Ok(result)
DecodeReturn ==
    /\ pc = "scan"
    /\ i = Len(bytes)
    /\ ret' = Ok(result)
    /\ pc' = "decoded"
    /\ UNCHANGED <<entry, rows, encoded, bytes, result, current_row,
                   value_start_index, i>>

\* the caller of the round trip: decode_rsv(encode_rsv(rows))
DecodeEncoded ==
    /\ entry = "encode"
    /\ pc = "encoded"
    /\ bytes' = encoded
    /\ pc' = "decode"
    /\ UNCHANGED <<entry, rows, encoded, result, current_row, value_start_index, i, ret>>

\* the caller of the reverse round trip: encode_rsv of what decode_rsv returned
EncodeDecoded ==
    /\ entry = "decode"
    /\ pc = "decoded"
    /\ ret.kind = "Ok"
    /\ rows' = ret.rows
    /\ pc' = "encode"
    /\ UNCHANGED <<entry, encoded, bytes, result, current_row, value_start_index, i, ret>>

Next ==
    \/ EncodeRsv
    \/ DecodeCheck
    \/ ScanValueTerminator
    \/ ScanRowTerminator
    \/ ScanOther
    \/ DecodeReturn
    \/ DecodeEncoded
    \/ EncodeDecoded

Spec == Init /\ [][Next]_vars

----------------------------------------------------------------------------
(* What the claims speak of, stated on the buffer alone. *)

Last(b) == b[Len(b)]
Indices(b) == 0..(Len(b) - 1)
Max(S) == CHOOSE x \in S : \A y \in S : y <= x

\* where the value that byte k belongs to starts: one past the previous
\* value or row terminator, 0 when there is none
ValueStartAt(b, k) ==
    LET prev == {j \in 0..(k - 1) : At(b, j) \in {VALUE_TERMINATOR, ROW_TERMINATOR}}
    IN IF prev = {} THEN 0 ELSE Max(prev) + 1

RunAt(b, k) == Slice(b, ValueStartAt(b, k), k)

\* a run the decoder accepts: empty, the lone null marker, or valid UTF-8
RunAccepted(run) == run = <<>> \/ run = <<NULL_VALUE>> \/ from_utf8(run).ok

\* byte k is a row terminator met in the middle of a value
MidValueRowEnd(b, k) ==
    At(b, k) = ROW_TERMINATOR /\ k # 0 /\ ValueStartAt(b, k) # k

\* byte k is a value terminator closing a run that is not accepted
InvalidRunEnd(b, k) ==
    At(b, k) = VALUE_TERMINATOR /\ ~RunAccepted(RunAt(b, k))

NoViolationBefore(b, k) ==
    \A j \in 0..(k - 1) : ~MidValueRowEnd(b, j) /\ ~InvalidRunEnd(b, j)

ValueEnds(b) == {k \in Indices(b) : At(b, k) = VALUE_TERMINATOR}
RowEnds(b) == {k \in Indices(b) : At(b, k) = ROW_TERMINATOR}

RECURSIVE Flatten(_)
Flatten(rs) == IF rs = <<>> THEN <<>> ELSE Head(rs) \o Flatten(Tail(rs))

\* the layout of section 4.1: per row, per cell its bytes and a value
\* terminator, then a row terminator
RECURSIVE CellsLayout(_)
CellsLayout(row) ==
    IF row = <<>> THEN <<>>
    ELSE (IF IsNone(Head(row)) THEN <<NULL_VALUE, VALUE_TERMINATOR>>
          ELSE into_bytes(Head(row)[2]) \o <<VALUE_TERMINATOR>>)
         \o CellsLayout(Tail(row))

RECURSIVE Layout(_)
Layout(rs) ==
    IF rs = <<>> THEN <<>>
    ELSE CellsLayout(Head(rs)) \o <<ROW_TERMINATOR>> \o Layout(Tail(rs))

DecodeErrors == {"IncompleteRSVDocument", "IncompleteRSVRow", "InvalidStringValue"}

----------------------------------------------------------------------------
(* The claims. *)

\* C1: round trip: decode_rsv(encode_rsv(D)) returns Ok(D) for every
\* document D, the empty document included.
C1_RoundTrip ==
    (entry = "encode" /\ pc = "decoded") => ret = Ok(rows)

\* C1, for the documents with at least one row: the round trip holds.
RoundTripOfNonEmpty ==
    (entry = "encode" /\ pc = "decoded" /\ rows # <<>>) => ret = Ok(rows)

\* C2: decode_rsv of the empty buffer succeeds with the empty document,
\* and never yields IncompleteDocument.
C2_EmptyBufferDecodes ==
    (pc = "decoded" /\ bytes = <<>>) => ret = Ok(<<>>)

\* C3: a non-empty buffer whose last byte is not the row terminator decodes
\* to IncompleteDocument, and is never scanned.
C3_TruncationDetected ==
    (bytes # <<>> /\ Last(bytes) # ROW_TERMINATOR) =>
        /\ pc # "scan"
        /\ pc = "decoded" =>
            /\ ret = IncompleteRSVDocument
            /\ i = 0 /\ value_start_index = 0
            /\ result = <<>> /\ current_row = <<>>

\* C3's case: truncated, with a row terminator in the middle of a value
\* earlier in the buffer.
C3_Witness ==
    /\ pc = "decoded"
    /\ bytes = <<65, ROW_TERMINATOR, 195, VALUE_TERMINATOR>>
    /\ ret = IncompleteRSVDocument

\* C4: in a buffer ending in the row terminator, when the first violation
\* is a row terminator at index k met in the middle of a value, decode_rsv
\* returns IncompleteRow(k + 1) and no rows.
C4_MidValueRowTruncation ==
    (pc = "decoded" /\ bytes # <<>> /\ Last(bytes) = ROW_TERMINATOR) =>
        \A k \in Indices(bytes) :
            (MidValueRowEnd(bytes, k) /\ NoViolationBefore(bytes, k)) =>
                /\ ret.kind = "IncompleteRSVRow"
                /\ ret.pos = k + 1
                /\ ret.rows = <<>>

\* C4's case: a complete cell, then raw text cut by the row terminator.
C4_Witness ==
    /\ pc = "decoded"
    /\ bytes = <<VALUE_TERMINATOR, 65, ROW_TERMINATOR>>
    /\ ret = IncompleteRSVRow(3)

\* C5: in a buffer ending in the row terminator, when the first violation
\* is a run closed by a value terminator that is not empty, not the lone
\* null marker and not valid UTF-8, decode_rsv returns InvalidStringValue
\* and no rows; a run of two or more bytes holding the null marker is such
\* a run.
C5_InvalidUtf8 ==
    (pc = "decoded" /\ bytes # <<>> /\ Last(bytes) = ROW_TERMINATOR) =>
        \A k \in Indices(bytes) :
            /\ (InvalidRunEnd(bytes, k) /\ NoViolationBefore(bytes, k)) =>
                    ret = InvalidStringValue
            /\ ( /\ At(bytes, k) = VALUE_TERMINATOR
                 /\ Len(RunAt(bytes, k)) >= 2
                 /\ \E j \in 1..Len(RunAt(bytes, k)) : RunAt(bytes, k)[j] = NULL_VALUE
                 /\ NoViolationBefore(bytes, k) ) =>
                    ret = InvalidStringValue

\* C5's case: a run of two bytes that starts with the null marker.
C5_Witness ==
    /\ pc = "decoded"
    /\ bytes = <<NULL_VALUE, 65, VALUE_TERMINATOR, ROW_TERMINATOR>>
    /\ ret = InvalidStringValue

\* C6: [[Null]] encodes to FE FF FD and [[Value("")]] to FF FD; in a
\* successful decode the cell of a run is Null exactly when the run is the
\* lone null marker, and Value("") exactly when the run is empty.
C6_NullVsEmpty ==
    /\ (pc = "encoded" /\ rows = <<<<None>>>>) =>
            encoded = <<NULL_VALUE, VALUE_TERMINATOR, ROW_TERMINATOR>>
    /\ (pc = "encoded" /\ rows = <<<<Some(<<>>)>>>>) =>
            encoded = <<VALUE_TERMINATOR, ROW_TERMINATOR>>
    /\ ret.kind = "Ok" =>
        LET cells == Flatten(ret.rows)
        IN /\ Len(cells) = Cardinality(ValueEnds(bytes))
           /\ \A k \in ValueEnds(bytes) :
                LET cell == cells[Cardinality({j \in ValueEnds(bytes) : j <= k})]
                    run == RunAt(bytes, k)
                IN /\ IsNone(cell) <=> run = <<NULL_VALUE>>
                   /\ cell = Some(<<>>) <=> run = <<>>

\* C6's case: a null cell and an empty cell side by side, decoded.
C6_Witness ==
    /\ pc = "decoded"
    /\ entry = "decode"
    /\ bytes = <<NULL_VALUE, VALUE_TERMINATOR, VALUE_TERMINATOR, ROW_TERMINATOR>>
    /\ ret = Ok(<<<<None, Some(<<>>)>>>>)

\* C7: encode_rsv(D) is the layout of D; it is empty exactly when D has no
\* rows, a row with no cells is the row terminator alone, and a non-empty
\* output ends with the row terminator.
C7_EncoderLayout ==
    pc = "encoded" =>
        /\ encoded = Layout(rows)
        /\ encoded = <<>> <=> rows = <<>>
        /\ encoded # <<>> => Last(encoded) = ROW_TERMINATOR
        /\ rows = <<<<>>>> => encoded = <<ROW_TERMINATOR>>
        /\ Cardinality(RowEnds(encoded)) = Len(rows)

\* C7's case: a null cell, a two-byte text, and a row with no cells.
C7_Witness ==
    /\ pc = "encoded"
    /\ rows = <<<<None, Some(<<233>>)>>, <<>>>>
    /\ encoded = <<NULL_VALUE, VALUE_TERMINATOR, 195, 169, VALUE_TERMINATOR,
                   ROW_TERMINATOR, ROW_TERMINATOR>>

\* C8: a successful decode returns one row per row terminator, row j with
\* one cell per value terminator between the (j-1)-th and the j-th row
\* terminator; a buffer of k >= 1 row terminators decodes to k empty rows.
C8_RowStructure ==
    (pc = "decoded" /\ ret.kind = "Ok") =>
        /\ Len(ret.rows) = Cardinality(RowEnds(bytes))
        /\ \A j \in 1..Len(ret.rows) :
                Len(ret.rows[j]) =
                    Cardinality({k \in ValueEnds(bytes) :
                        Cardinality({r \in RowEnds(bytes) : r < k}) = j - 1})
        /\ (bytes # <<>> /\ \A k \in Indices(bytes) : At(bytes, k) = ROW_TERMINATOR) =>
                ret.rows = [j \in 1..Len(bytes) |-> <<>>]

\* C8's case: the lone row terminator decodes to one empty row.
C8_Witness ==
    /\ pc = "decoded"
    /\ bytes = <<ROW_TERMINATOR>>
    /\ ret = Ok(<<<<>>>>)

\* C9: during the scan 0 <= value_start_index <= i <= len, so no index
\* computation fails; a step is always possible until decode_rsv returns,
\* and it returns Ok or one of the three errors, never a panic.
C9_ScanIndexSafety ==
    /\ pc = "scan" =>
        /\ 0 <= value_start_index
        /\ value_start_index <= i
        /\ i <= Len(bytes)
        /\ ENABLED (ScanValueTerminator \/ ScanRowTerminator \/ ScanOther \/ DecodeReturn)
    /\ ret.kind # "Panic"
    /\ pc = "decoded" => ret.kind \in {"Ok"} \cup DecodeErrors

\* C9's case: the scan stands on a value terminator after a row was closed.
C9_Witness ==
    /\ pc = "scan"
    /\ i > 0
    /\ i < Len(bytes)
    /\ At(bytes, i) = VALUE_TERMINATOR
    /\ result # <<>>

\* C10: a buffer decode_rsv accepts is the encoding of the document it
\* decodes to.
C10_ReverseRoundTrip ==
    (entry = "decode" /\ pc = "encoded") => encoded = bytes

\* C10's case: an accepted buffer with a two-byte character, re-encoded.
C10_Witness ==
    /\ entry = "decode"
    /\ pc = "encoded"
    /\ bytes = <<195, 169, VALUE_TERMINATOR, ROW_TERMINATOR>>
    /\ encoded = bytes

====
